---- MODULE Spec2Model ----
(***************************************************************************)
(* Model of src/index.js: checkRpcSync (the RPC synchronisation checker)   *)
(* and waitForTx / waitForTxUsingSubscribePendingTransactions (the mempool *)
(* watcher).                                                               *)
(***************************************************************************)
EXTENDS Integers, Sequences, FiniteSets, TLC

(***************************************************************************)
(* Bounds of the model.                                                    *)
(***************************************************************************)
MaxPeers == 2       \* longest peer list a caller passes
MaxHeight == 2      \* largest block number an endpoint answers
MaxEmits == 3       \* identifiers the pending-transaction feed emits
MaxCalls == 2       \* calls of checkRpcSync a caller makes with one array

(***************************************************************************)
(* Values.                                                                 *)
(***************************************************************************)
Rpcs == {"A", "B", "C"}                 \* endpoint URLs
NoRpc == "null"                         \* mainRpc == null (null or undefined)
Null == -1                              \* the JavaScript null in `blocks`
Heights == 0 .. MaxHeight               \* what getBlockNumber() fulfils with

Hashes == {"t1", "t2"}                  \* transaction identifiers of the feed
Modes == {"fast", "FAST", "Fast", "cheap", "slow"}   \* argument mode of waitForTx
NoTx == [hash |-> "null"]               \* getTransaction() answering null
Tx(h) == [hash |-> h]                   \* the transaction object of identifier h

RECURSIVE SeqsUpTo(_, _)
SeqsUpTo(S, n) ==
    IF n = 0 THEN {<<>>}
    ELSE LET shorter == SeqsUpTo(S, n - 1)
         IN  shorter \cup {Append(s, x) : s \in {t \in shorter : Len(t) = n - 1}, x \in S}

PeerLists == SeqsUpTo(Rpcs, MaxPeers)

Range(s) == {s[k] : k \in 1 .. Len(s)}

(***************************************************************************)
(* checkRpcSync: state.                                                    *)
(***************************************************************************)
VARIABLES
    pc,          \* position of the checkRpcSync call
    mainRpc,     \* argument mainRpc
    arg,         \* the caller's array as it was when the call was made
    rpcs,        \* the caller's array (argument rpcs, mutated by push)
    queries,     \* the getBlockNumber() promises, one per element of rpcs
    outOfOrder,  \* some query settled before a query of a smaller index
    blocks,      \* `blocks` after line 266
    maxBlock,    \* `maxBlock`
    i,           \* loop variable of the report loop
    console,     \* per-endpoint report lines logged so far
    verdict,     \* the final console line of lines 304 / 306
    outcome,     \* "none" | "returned" | "threw"
    error,       \* the Error thrown, when outcome = "threw"
    calls,       \* calls of checkRpcSync made with the caller's array
    original     \* the caller's array before the first call

syncVars == <<pc, mainRpc, arg, rpcs, queries, outOfOrder, blocks, maxBlock, i,
              console, verdict, outcome, error, calls, original>>

(***************************************************************************)
(* waitForTx: state.                                                       *)
(***************************************************************************)
VARIABLES
    wpc,          \* position of the waitForTx call: "idle" | "waiting" | "threw"
    modeArg,      \* argument mode, as the caller passed it
    mode,         \* `mode` after line 421
    subscribes,   \* calls of eth.subscribe('pendingTransactions')
    subOpen,      \* the subscription delivers events
    unsubscribes, \* calls of subscription.unsubscribe()
    promise,      \* the promise of line 395
    resolves,     \* calls of resolve(tx)
    tasks,        \* the runs of the 'data' handler, in emission order
    trueOrder,    \* the runs whose matchF answered true, in completion order
    unhandled,    \* runs of the 'data' handler that ended in a rejection
    feedThrown    \* the 'error' listener has thrown the feed's error

watchVars == <<wpc, modeArg, mode, subscribes, subOpen, unsubscribes, promise, resolves, tasks,
               trueOrder, unhandled, feedThrown>>

vars == <<syncVars, watchVars>>

NoError == [kind |-> "none", rpc |-> NoRpc, block |-> Null, max |-> Null]

\* a getBlockNumber() promise that has not settled, and the endpoint it asks
Pending(rpc) == [rpc |-> rpc, status |-> "pending", value |-> Null]

(***************************************************************************)
(* checkRpcSync: the pure parts.                                           *)
(***************************************************************************)
\* Array.prototype.includes
Includes(s, x) == \E k \in 1 .. Len(s) : s[k] = x

\* Array.prototype.indexOf, 1-based; 0 when absent
IndexOf(s, x) ==
    IF Includes(s, x) THEN CHOOSE k \in 1 .. Len(s) : s[k] = x /\ \A j \in 1 .. k - 1 : s[j] # x
    ELSE 0

\* a mutant of IsNull: the test is missing
IsNullMissing(m) == FALSE

\* line 259: mainRpc == null, true of null and of undefined
IsNull(m) == m = NoRpc

\* a mutant of PushMain: the test of includes is missing
PushMainAlways(list, m) == Append(list, m)

\* a mutant of PushMain: the main endpoint is put in front (unshift)
PushMainFront(list, m) == IF ~Includes(list, m) THEN <<m>> \o list ELSE list

\* line 260: if (!rpcs.includes(mainRpc)) rpcs.push(mainRpc)
PushMain(list, m) == IF ~Includes(list, m) THEN Append(list, m) ELSE list

\* the list without its repeated elements, first occurrences kept
RECURSIVE Dedup(_)
Dedup(list) ==
    IF list = <<>> THEN <<>>
    ELSE LET front == SubSeq(list, 1, Len(list) - 1)
             last == list[Len(list)]
         IN  IF Includes(front, last) THEN Dedup(front) ELSE Append(Dedup(front), last)

\* a mutant of LaunchQueries: one query per distinct endpoint
LaunchDistinct(list) == [k \in 1 .. Len(Dedup(list)) |-> Pending(Dedup(list)[k])]

\* line 264: rpcs.map(rpc => (new Web3(rpc)).eth.getBlockNumber())
LaunchQueries(list) == [k \in 1 .. Len(list) |-> Pending(list[k])]

\* line 266: r.status === 'fulfilled' ? r.value : null
SettledValue(r) == IF r.status = "fulfilled" THEN r.value ELSE Null

\* ToNumber, as Math.max applies it to its arguments: null becomes 0
ToNumber(b) == IF b = Null THEN 0 ELSE b

Max2(a, b) == IF a >= b THEN a ELSE b
Min2(a, b) == IF a <= b THEN a ELSE b

\* a mutant of MathMax: the height of the first endpoint of the list
MathMaxFirst(s) == ToNumber(s[1])

\* a mutant of MathMax: the minimum
RECURSIVE MathMin(_)
MathMin(s) ==
    IF Len(s) = 1 THEN ToNumber(s[1]) ELSE Min2(ToNumber(Head(s)), MathMin(Tail(s)))

\* line 268: Math.max(...blocks); blocks is never empty (line 260)
RECURSIVE MathMax(_)
MathMax(s) ==
    IF Len(s) = 1 THEN ToNumber(s[1]) ELSE Max2(ToNumber(Head(s)), MathMax(Tail(s)))

\* lines 281-291: the switch on blocks[i]
BlockColor(b, max) ==
    IF b = max THEN "green"
    ELSE IF b = max - 1 THEN "yellow"
    ELSE "red"

\* lines 273-296: the line logged for rpcs[k]
ReportLine(list, bs, max, m, k) ==
    IF bs[k] = Null
    THEN [text |-> "null", block |-> Null, blockColor |-> "red", hasDelta |-> FALSE,
          delta |-> 0, rpc |-> list[k], rpcColor |-> "none"]
    ELSE [text |-> "block", block |-> bs[k], blockColor |-> BlockColor(bs[k], max),
          hasDelta |-> TRUE, delta |-> bs[k] - max, rpc |-> list[k],
          rpcColor |-> IF list[k] = m THEN "white" ELSE "gray"]

\* line 300: blocks[rpcs.indexOf(mainRpc)]
MainRpcBlock(list, bs, m) == bs[IndexOf(list, m)]

\* a mutant of MainVerdict: no test for null, a down endpoint counts as behind
MainVerdictNoNull(b, max) ==
    IF b # Null /\ b = max THEN "healthy"
    ELSE IF b # Null /\ b = max - 1 THEN "warning"
    ELSE "tooFar"

\* a mutant of MainVerdict: one block behind is not tolerated
MainVerdictStrict(b, max) ==
    IF b = Null THEN "down"
    ELSE IF b = max THEN "healthy"
    ELSE "tooFar"

\* lines 301-309: the branch taken on mainRpcBlock
MainVerdict(b, max) ==
    IF b = Null THEN "down"
    ELSE IF b = max THEN "healthy"
    ELSE IF b = max - 1 THEN "warning"
    ELSE "tooFar"

\* a mutant of AllSettled: the join of Promise.all, over as soon as one query
\* has rejected
AllSettledFailFast(qs) ==
    \/ \A k \in 1 .. Len(qs) : qs[k].status = "fulfilled"
    \/ \E k \in 1 .. Len(qs) : qs[k].status = "rejected"

\* line 265: Promise.allSettled resolves when every promise has settled
AllSettled(qs) == \A k \in 1 .. Len(qs) : qs[k].status # "pending"

\* a mutant of LoopDone: the loop stops one element early
LoopDoneEarly(k, list) == k >= Len(list)

\* line 272: the loop condition i < rpcs.length, negated (i is 1-based here)
LoopDone(k, list) == k > Len(list)

(***************************************************************************)
(* checkRpcSync: the steps.                                                *)
(***************************************************************************)
SyncInit(list) ==
    /\ pc = "idle"
    /\ rpcs = list
    /\ arg = list
    /\ mainRpc = NoRpc
    /\ queries = <<>>
    /\ outOfOrder = FALSE
    /\ blocks = <<>>
    /\ maxBlock = Null
    /\ i = 0
    /\ console = <<>>
    /\ verdict = "none"
    /\ outcome = "none"
    /\ error = NoError
    /\ calls = 0
    /\ original = list

\* lines 257-265: the call, up to the await of Promise.allSettled
CheckRpcSync(m) ==
    /\ pc = "idle"
    /\ calls = 0 \/ m = mainRpc
    /\ calls' = calls + 1
    /\ UNCHANGED original
    /\ mainRpc' = m
    /\ arg' = rpcs
    /\ IF IsNull(m)
       THEN /\ outcome' = "threw"
            /\ error' = [NoError EXCEPT !.kind = "InvalidInput"]
            /\ pc' = "done"
            /\ UNCHANGED <<rpcs, queries>>
       ELSE /\ rpcs' = PushMain(rpcs, m)
            /\ queries' = LaunchQueries(rpcs')
            /\ pc' = "await"
            /\ UNCHANGED <<outcome, error>>
    /\ UNCHANGED <<outOfOrder, blocks, maxBlock, i, console, verdict>>
    /\ UNCHANGED watchVars

\* one getBlockNumber() promise fulfils
Fulfil(k, h) ==
    /\ pc = "await"
    /\ k \in 1 .. Len(queries)
    /\ queries[k].status = "pending"
    /\ queries' = [queries EXCEPT ![k].status = "fulfilled", ![k].value = h]
    /\ outOfOrder' = (outOfOrder \/ \E j \in 1 .. k - 1 : queries[j].status = "pending")
    /\ UNCHANGED <<pc, mainRpc, arg, rpcs, blocks, maxBlock, i, console, verdict,
                   outcome, error>>
    /\ UNCHANGED <<calls, original>>
    /\ UNCHANGED watchVars

\* one getBlockNumber() promise rejects
Reject(k) ==
    /\ pc = "await"
    /\ k \in 1 .. Len(queries)
    /\ queries[k].status = "pending"
    /\ queries' = [queries EXCEPT ![k].status = "rejected"]
    /\ outOfOrder' = (outOfOrder \/ \E j \in 1 .. k - 1 : queries[j].status = "pending")
    /\ UNCHANGED <<pc, mainRpc, arg, rpcs, blocks, maxBlock, i, console, verdict,
                   outcome, error>>
    /\ UNCHANGED <<calls, original>>
    /\ UNCHANGED watchVars

\* lines 265-271: Promise.allSettled resolves, blocks and maxBlock are computed
Join ==
    /\ pc = "await"
    /\ AllSettled(queries)
    /\ blocks' = [k \in 1 .. Len(queries) |-> SettledValue(queries[k])]
    /\ maxBlock' = MathMax(blocks')
    /\ i' = 1
    /\ pc' = "report"
    /\ UNCHANGED <<mainRpc, arg, rpcs, queries, outOfOrder, console, verdict, outcome, error>>
    /\ UNCHANGED <<calls, original>>
    /\ UNCHANGED watchVars

\* lines 272-297: one iteration of the report loop
Report ==
    /\ pc = "report"
    /\ ~LoopDone(i, rpcs)
    /\ console' = Append(console, ReportLine(rpcs, blocks, maxBlock, mainRpc, i))
    /\ i' = i + 1
    /\ UNCHANGED <<pc, mainRpc, arg, rpcs, queries, outOfOrder, blocks, maxBlock, verdict,
                   outcome, error>>
    /\ UNCHANGED <<calls, original>>
    /\ UNCHANGED watchVars

\* lines 299-310: the decision on the main endpoint
Decide ==
    /\ pc = "report"
    /\ LoopDone(i, rpcs)
    /\ LET mainRpcBlock == MainRpcBlock(rpcs, blocks, mainRpc)
           branch == MainVerdict(mainRpcBlock, maxBlock)
       IN  /\ outcome' = IF branch \in {"healthy", "warning"} THEN "returned" ELSE "threw"
           /\ verdict' = IF branch \in {"healthy", "warning"} THEN branch ELSE verdict
           /\ error' = IF branch = "down"
                          THEN [kind |-> "MainDown", rpc |-> mainRpc, block |-> Null,
                                max |-> Null]
                        ELSE IF branch = "tooFar"
                          THEN [kind |-> "TooFar", rpc |-> mainRpc, block |-> mainRpcBlock,
                                max |-> maxBlock]
                        ELSE error
    /\ pc' = "done"
    /\ UNCHANGED <<mainRpc, arg, rpcs, queries, outOfOrder, blocks, maxBlock, i, console>>
    /\ UNCHANGED <<calls, original>>
    /\ UNCHANGED watchVars

\* lines 257-260: the call is over and the caller calls again, with the same
\* array and the same main endpoint
Again ==
    /\ pc = "done"
    /\ calls < MaxCalls
    /\ pc' = "idle"
    /\ arg' = rpcs
    /\ queries' = <<>>
    /\ outOfOrder' = FALSE
    /\ blocks' = <<>>
    /\ maxBlock' = Null
    /\ i' = 0
    /\ console' = <<>>
    /\ verdict' = "none"
    /\ outcome' = "none"
    /\ error' = NoError
    /\ UNCHANGED <<mainRpc, rpcs, calls, original>>
    /\ UNCHANGED watchVars

SyncNext ==
    \/ \E m \in Rpcs \cup {NoRpc} : CheckRpcSync(m)
    \/ \E k \in 1 .. MaxPeers + 1, h \in Heights : Fulfil(k, h)
    \/ \E k \in 1 .. MaxPeers + 1 : Reject(k)
    \/ Join
    \/ Report
    \/ Decide

(***************************************************************************)
(* waitForTx: the pure parts.                                              *)
(***************************************************************************)
\* String.prototype.toLowerCase on the modes of the model
ToLowerCase(m) ==
    CASE m = "FAST" -> "fast"
      [] m = "Fast" -> "fast"
      [] OTHER -> m

\* a mutant of PromiseResolve: the promise is never settled
PromiseResolveNever(p, v) == p

\* a mutant of PromiseResolve: a later resolve replaces the value
PromiseResolveLast(p, v) == [state |-> "fulfilled", value |-> v]

\* resolve(tx) of the promise of line 395: only a pending promise settles
PromiseResolve(p, v) == IF p.state = "pending" THEN [state |-> "fulfilled", value |-> v] ELSE p

\* a mutant of NotNull: the test is missing
NotNullMissing(tx) == TRUE

\* line 402: tx != null
NotNull(tx) == tx # NoTx

\* a mutant of ModeSupported: the 'cheap' case is taken too
ModeSupportedCheap(md) == md \in {"fast", "cheap"}

\* lines 423-429: the case 'fast' of the switch; every other mode is the default
ModeSupported(md) == md = "fast"

NewTask(h) == [hash |-> h, stage |-> "getTransaction", tx |-> NoTx]

(***************************************************************************)
(* waitForTx: the steps.                                                   *)
(***************************************************************************)
WatchInit ==
    /\ wpc = "idle"
    /\ modeArg = "none"
    /\ mode = "none"
    /\ subscribes = 0
    /\ subOpen = FALSE
    /\ unsubscribes = 0
    /\ promise = [state |-> "pending", value |-> NoTx]
    /\ resolves = 0
    /\ tasks = <<>>
    /\ trueOrder = <<>>
    /\ unhandled = {}
    /\ feedThrown = FALSE

\* lines 420-431 and 394-398: the call, up to the subscription
WaitForTx(m) ==
    /\ wpc = "idle"
    /\ modeArg' = m
    /\ mode' = ToLowerCase(m)
    /\ IF ModeSupported(mode')
       THEN /\ subscribes' = subscribes + 1
            /\ subOpen' = TRUE
            /\ wpc' = "waiting"
       ELSE /\ wpc' = "threw"
            /\ UNCHANGED <<subscribes, subOpen>>
    /\ UNCHANGED <<unsubscribes, promise, resolves, tasks, trueOrder, unhandled, feedThrown>>
    /\ UNCHANGED syncVars

\* lines 399-400: the feed emits an identifier, the handler asks for the transaction
Data(h) ==
    /\ subOpen
    /\ Len(tasks) < MaxEmits
    /\ tasks' = Append(tasks, NewTask(h))
    /\ UNCHANGED <<wpc, modeArg, mode, subscribes, subOpen, unsubscribes, promise, resolves,
                   trueOrder, unhandled, feedThrown>>
    /\ UNCHANGED syncVars

\* lines 400-402: getTransaction answers a transaction or null, matchF is called
\* for a transaction
GetTransactionDone(k, found) ==
    /\ k \in 1 .. Len(tasks)
    /\ tasks[k].stage = "getTransaction"
    /\ LET tx == IF found THEN Tx(tasks[k].hash) ELSE NoTx
       IN  tasks' = [tasks EXCEPT ![k].tx = tx,
                                 ![k].stage = IF NotNull(tx) THEN "matchF" ELSE "skipped"]
    /\ UNCHANGED <<wpc, modeArg, mode, subscribes, subOpen, unsubscribes, promise, resolves,
                   trueOrder, unhandled, feedThrown>>
    /\ UNCHANGED syncVars

\* line 400: getTransaction rejects, and with it the promise of the handler
GetTransactionFails(k) ==
    /\ k \in 1 .. Len(tasks)
    /\ tasks[k].stage = "getTransaction"
    /\ tasks' = [tasks EXCEPT ![k].stage = "rejected"]
    /\ unhandled' = unhandled \cup {k}
    /\ UNCHANGED <<wpc, modeArg, mode, subscribes, subOpen, unsubscribes, promise, resolves,
                   trueOrder, feedThrown>>
    /\ UNCHANGED syncVars

\* lines 402-405: matchF answers; on true the handler unsubscribes and resolves
MatchFDone(k, answer) ==
    /\ k \in 1 .. Len(tasks)
    /\ tasks[k].stage = "matchF"
    /\ IF answer
       THEN /\ unsubscribes' = unsubscribes + 1
            /\ subOpen' = FALSE
            /\ promise' = PromiseResolve(promise, tasks[k].tx)
            /\ resolves' = resolves + 1
            /\ trueOrder' = Append(trueOrder, k)
            /\ tasks' = [tasks EXCEPT ![k].stage = "matched"]
       ELSE /\ tasks' = [tasks EXCEPT ![k].stage = "unmatched"]
            /\ UNCHANGED <<unsubscribes, subOpen, promise, resolves, trueOrder>>
    /\ UNCHANGED <<wpc, modeArg, mode, subscribes, unhandled, feedThrown>>
    /\ UNCHANGED syncVars

\* line 402: matchF throws or rejects, and with it the promise of the handler
MatchFFails(k) ==
    /\ k \in 1 .. Len(tasks)
    /\ tasks[k].stage = "matchF"
    /\ tasks' = [tasks EXCEPT ![k].stage = "rejected"]
    /\ unhandled' = unhandled \cup {k}
    /\ UNCHANGED <<wpc, modeArg, mode, subscribes, subOpen, unsubscribes, promise, resolves,
                   trueOrder, feedThrown>>
    /\ UNCHANGED syncVars

\* lines 407-409: the feed emits an error, the listener throws it
FeedError ==
    /\ subOpen
    /\ ~feedThrown
    /\ feedThrown' = TRUE
    /\ UNCHANGED <<wpc, modeArg, mode, subscribes, subOpen, unsubscribes, promise, resolves, tasks,
                   trueOrder, unhandled>>
    /\ UNCHANGED syncVars

WatchNext ==
    \/ \E m \in Modes : WaitForTx(m)
    \/ \E h \in Hashes : Data(h)
    \/ \E k \in 1 .. MaxEmits, found \in BOOLEAN : GetTransactionDone(k, found)
    \/ \E k \in 1 .. MaxEmits : GetTransactionFails(k)
    \/ \E k \in 1 .. MaxEmits, answer \in BOOLEAN : MatchFDone(k, answer)
    \/ \E k \in 1 .. MaxEmits : MatchFFails(k)
    \/ FeedError

(***************************************************************************)
(* The specifications: one call of checkRpcSync on any peer list, and one  *)
(* call of waitForTx.                                                      *)
(***************************************************************************)
\* checkRpcSync called again and again with one array and one main endpoint
SyncCallsNext ==
    \/ \E m \in Rpcs \cup {NoRpc} : CheckRpcSync(m)
    \/ \E k \in 1 .. MaxPeers + 1, h \in Heights : Fulfil(k, h)
    \/ \E k \in 1 .. MaxPeers + 1 : Reject(k)
    \/ Join
    \/ Report
    \/ Decide
    \/ Again

InitSync == \E list \in PeerLists : SyncInit(list) /\ WatchInit

InitWatch == SyncInit(<<>>) /\ WatchInit

SpecSync == InitSync /\ [][SyncNext]_vars

SpecSyncCalls == InitSync /\ [][SyncCallsNext]_vars

SpecWatch == InitWatch /\ [][WatchNext]_vars

\* getTransaction of a run of the handler settles
GetTransactionSettles ==
    \E k \in 1 .. MaxEmits :
        \/ \E found \in BOOLEAN : GetTransactionDone(k, found)
        \/ GetTransactionFails(k)

\* matchF of a run of the handler settles, and the handler runs to its end
MatchFSettles ==
    \E k \in 1 .. MaxEmits :
        \/ \E answer \in BOOLEAN : MatchFDone(k, answer)
        \/ MatchFFails(k)

\* waitForTx with the sub-tasks scheduled fairly: a request in flight is
\* answered and the handler awaiting it is resumed
FairSpecWatch ==
    /\ InitWatch
    /\ [][WatchNext]_vars
    /\ WF_vars(GetTransactionSettles)
    /\ WF_vars(MatchFSettles)

(***************************************************************************)
(* checkRpcSync: what the claims speak of.                                 *)
(***************************************************************************)
\* the heights the queries answered, null for a failed query
Answered == [k \in 1 .. Len(queries) |-> SettledValue(queries[k])]
NonNullHeights == {Answered[k] : k \in {j \in 1 .. Len(queries) : Answered[j] # Null}}
MaxHeightSeen == CHOOSE h \in NonNullHeights : \A g \in NonNullHeights : g <= h
Joined == pc \in {"report", "done"} /\ mainRpc # NoRpc
MainHeight == Answered[IndexOf(rpcs, mainRpc)]

\* the list the caller passed, with the main endpoint last when it was missing
Expected == IF Includes(arg, mainRpc) THEN arg ELSE Append(arg, mainRpc)

\* the rule table of the classification
RuleTable(h, max) ==
    IF h = Null THEN "Unreachable"
    ELSE IF h = max THEN "UpToDate"
    ELSE IF h = max - 1 THEN "OneBehind"
    ELSE "Stale"

\* the classification a logged line shows
Shown(line) ==
    IF line.text = "null" THEN "Unreachable"
    ELSE IF line.blockColor = "green" THEN "UpToDate"
    ELSE IF line.blockColor = "yellow" THEN "OneBehind"
    ELSE "Stale"

\* C1: with at least one non-null height, maxBlock is the maximum of the
\* non-null heights and every logged line shows the classification the rule
\* table gives to the height that endpoint's query answered.
C1_MaxAndClassification ==
    (Joined /\ NonNullHeights # {}) =>
        /\ maxBlock = MaxHeightSeen
        /\ \A k \in 1 .. Len(console) :
              Shown(console[k]) = RuleTable(Answered[k], MaxHeightSeen)

\* C1 witness: a finished report showing an up-to-date, a one-behind and a
\* stale endpoint.
C1_Witness ==
    /\ pc = "done"
    /\ Len(console) = 3
    /\ {Shown(console[k]) : k \in 1 .. 3} = {"UpToDate", "OneBehind", "Stale"}

\* C2: the call returns if and only if the main endpoint's height is non-null
\* and equal to the maximum or one below it; a non-null main height more than
\* one below the maximum gives the too-far-behind error naming the main
\* endpoint, its height and the maximum.
C2_ReturnsIffMainInSync ==
    pc = "done" =>
        /\ outcome = "returned" <=>
              /\ mainRpc # NoRpc
              /\ MainHeight # Null
              /\ MainHeight \in {MaxHeightSeen, MaxHeightSeen - 1}
        /\ (mainRpc # NoRpc /\ MainHeight # Null /\ MainHeight < MaxHeightSeen - 1) =>
              /\ outcome = "threw"
              /\ error = [kind |-> "TooFar", rpc |-> mainRpc, block |-> MainHeight,
                          max |-> MaxHeightSeen]

\* C2 witness: the main endpoint one block behind a peer, and the call returned.
C2_Witness ==
    /\ pc = "done"
    /\ outcome = "returned"
    /\ verdict = "warning"
    /\ MainHeight = MaxHeightSeen - 1

\* C3: when the main endpoint's query failed and some peer's query succeeded,
\* the call throws the main-is-probably-down error.
C3_MainDown ==
    (pc = "done" /\ mainRpc # NoRpc /\ MainHeight = Null /\ NonNullHeights # {}) =>
        /\ outcome = "threw"
        /\ error.kind = "MainDown"
        /\ error.rpc = mainRpc

\* C3 witness: main failed, a peer answered, the call is over.
C3_Witness ==
    /\ pc = "done"
    /\ mainRpc # NoRpc
    /\ MainHeight = Null
    /\ NonNullHeights # {}
    /\ error.kind = "MainDown"

\* C4 (as claimed): when every query failed the call throws an error that is
\* not the main-unreachable one, and no report line is logged.
C4_AllUnreachableAsClaimed ==
    (pc = "done" /\ mainRpc # NoRpc /\ NonNullHeights = {}) =>
        /\ outcome = "threw"
        /\ error.kind = "AllEndpointsUnreachable"
        /\ console = <<>>

Occurrences(list, x) == Cardinality({k \in 1 .. Len(list) : list[k] = x})

C6_ReportInCallerOrder ==
    Joined =>
        /\ \A k \in 1 .. Len(console) :
              /\ console[k].rpc = Expected[k]
              /\ console[k].rpcColor = "white" => Expected[k] = mainRpc
        /\ pc = "done" => Len(console) = Len(Expected)

\* C6 witness: the main endpoint was appended to a non-empty list, the queries
\* settled out of list order, and the report is complete.
C6_Witness ==
    /\ pc = "done"
    /\ outOfOrder
    /\ ~Includes(arg, mainRpc)
    /\ Len(arg) = 2
    /\ Len(console) = 3
    /\ console[3].rpcColor = "white"

\* C7: when the call throws after its queries, every queried endpoint has its
\* report line already.
C7_ReportBeforeThrow ==
    (outcome = "threw" /\ error.kind \in {"MainDown", "TooFar"}) =>
        /\ Len(console) = Len(queries)
        /\ \A k \in 1 .. Len(queries) : console[k].rpc = queries[k].rpc

\* C7 witness: the call threw too-far-behind after a report of three lines.
C7_Witness ==
    /\ outcome = "threw"
    /\ error.kind = "TooFar"
    /\ Len(console) = 3

(***************************************************************************)
(* waitForTx: what the claims speak of.                                    *)
(***************************************************************************)
\* C8: the call resolves exactly when some evaluation of matchF has completed
\* with true, and the value is the transaction of the evaluation that
\* completed with true first, whatever the emission order; it is a non-null
\* transaction object.
C8_FirstTrueWins ==
    /\ promise.state = "fulfilled" <=> trueOrder # <<>>
    /\ promise.state = "fulfilled" =>
          /\ promise.value = tasks[trueOrder[1]].tx
          /\ promise.value = Tx(tasks[trueOrder[1]].hash)
          /\ promise.value # NoTx

\* C8 witness: two identifiers were emitted, then the one emitted second
\* completed matchF with true before the one emitted first, and won.
C8_Witness ==
    /\ Len(trueOrder) = 2
    /\ trueOrder[1] > trueOrder[2]
    /\ tasks[trueOrder[1]].hash # tasks[trueOrder[2]].hash
    /\ promise.value = Tx(tasks[trueOrder[1]].hash)

\* C9: once the promise of the call has settled, no step changes its state or
\* its value.
C9_ResolvesAtMostOnce == [][promise.state # "pending" => promise' = promise]_vars

\* C9 witness: resolve was called a second time, with another transaction, and
\* the promise kept the first.
C9_Witness ==
    /\ resolves = 2
    /\ promise.state = "fulfilled"
    /\ \E k \in 1 .. Len(tasks) : tasks[k].stage = "matched" /\ tasks[k].tx # promise.value

\* C10 (as claimed): unsubscribe() is never called a second time, and has been
\* called once when the call has resolved.
C10_UnsubscribeOnceAsClaimed ==
    /\ unsubscribes <= 1
    /\ promise.state = "fulfilled" => unsubscribes = 1

\* some evaluation of matchF has thrown or rejected
PredicateFailed ==
    \E k \in 1 .. Len(tasks) : tasks[k].stage = "rejected" /\ tasks[k].tx # NoTx

\* C11 (as claimed): after a match, after a predicate error and after a feed
\* error the subscription has been unsubscribed.
C11_ReleasedOnEveryExitAsClaimed ==
    (promise.state = "fulfilled" \/ PredicateFailed \/ feedThrown) =>
        /\ ~subOpen
        /\ unsubscribes >= 1

\* C12 (as claimed): once the feed has emitted an error, the promise of the
\* call is rejected.
C12_FeedErrorRejectsAsClaimed == feedThrown => promise.state = "rejected"

\* C13 (as claimed): once matchF has thrown or rejected, the promise of the
\* call is rejected, and is never resolved with a transaction.
C13_PredicateErrorRejectsAsClaimed ==
    PredicateFailed => promise.state = "rejected"

\* the modes that are 'fast' when letter case is ignored
IsFastAnyCase(m) == m \in {"fast", "FAST", "Fast"}

C15_JoinAllPartialFailure ==
    /\ pc = "await" =>
          /\ Len(queries) = Len(rpcs)
          /\ blocks = <<>>
          /\ maxBlock = Null
    /\ Joined =>
          /\ \A k \in 1 .. Len(queries) : queries[k].status # "pending"
          /\ Len(blocks) = Len(queries)
          /\ \A k \in 1 .. Len(queries) :
                blocks[k] = IF queries[k].status = "rejected" THEN Null ELSE queries[k].value

\* C15 witness: the first query rejected while the others were pending, the
\* others fulfilled afterwards, and the join has taken place.
C15_Witness ==
    /\ Joined
    /\ Len(queries) = 3
    /\ ~outOfOrder
    /\ queries[1].status = "rejected"
    /\ queries[2].status = "fulfilled"
    /\ queries[3].status = "fulfilled"
    /\ maxBlock = 2

\* the step in which getTransaction answers null for run k of the handler
SkipStep(k) ==
    /\ k \in 1 .. Len(tasks)
    /\ tasks[k].stage = "getTransaction"
    /\ tasks'[k].stage = "skipped"

\* matchF is never evaluated for a null transaction, and a skipped run has
\* neither resolved the call nor ended in an error
SkippedIsSilent ==
    \A k \in 1 .. Len(tasks) :
        /\ tasks[k].tx = NoTx => tasks[k].stage \in {"getTransaction", "skipped", "rejected"}
        /\ tasks[k].stage = "skipped" =>
              /\ tasks[k].tx = NoTx
              /\ k \notin Range(trueOrder)
              /\ k \notin unhandled

\* C16: when getTransaction answers null the run ends there: matchF is not
\* evaluated for it, the step changes neither the promise of the call nor the
\* subscription nor the count of unsubscribe() calls and raises no error, and
\* the run stays skipped.
C16_NullTransactionSkipped ==
    /\ []SkippedIsSilent
    /\ [][\A k \in 1 .. MaxEmits :
            /\ SkipStep(k) =>
                  UNCHANGED <<promise, resolves, subOpen, unsubscribes, unhandled, trueOrder>>
            /\ (k \in 1 .. Len(tasks) /\ tasks[k].stage = "skipped") =>
                  tasks'[k] = tasks[k]]_vars

\* C16 witness: the first identifier resolved to null while the subscription
\* was open, and a later identifier then matched and resolved the call.
C16_Witness ==
    /\ Len(tasks) >= 2
    /\ tasks[1].stage = "skipped"
    /\ trueOrder = <<2>>
    /\ promise.value = Tx(tasks[2].hash)

\* C17: a call with a null main endpoint throws the invalid-input error at
\* once: no query is issued, no report line is logged and the caller's list is
\* as it was.
C17_NullMainThrowsAtOnce ==
    (pc # "idle" /\ mainRpc = NoRpc) =>
        /\ pc = "done"
        /\ outcome = "threw"
        /\ error.kind = "InvalidInput"
        /\ queries = <<>>
        /\ console = <<>>
        /\ verdict = "none"
        /\ rpcs = arg

\* C17 witness: checkRpcSync(null, [two endpoints]) has thrown.
C17_Witness ==
    /\ pc = "done"
    /\ mainRpc = NoRpc
    /\ Len(arg) = 2
    /\ error.kind = "InvalidInput"

\* C18: whenever a run of the handler has got a transaction and its matchF has
\* completed with true, the call is eventually resolved with a transaction and
\* the subscription is eventually unsubscribed.
C18_MatchLeadsToResolution ==
    (\E k \in 1 .. Len(tasks) : tasks[k].stage = "matched")
        ~> (promise.state = "fulfilled" /\ promise.value # NoTx /\ ~subOpen
            /\ unsubscribes >= 1)

\* C18 witness: no error occurred, the one emitted identifier matched, the call
\* is resolved and the subscription closed.
C18_Witness ==
    /\ Len(tasks) = 1
    /\ tasks[1].stage = "matched"
    /\ unhandled = {}
    /\ ~feedThrown
    /\ promise.state = "fulfilled"
    /\ ~subOpen
    /\ unsubscribes = 1

\* C19: in a report no height is above maxBlock: every delta logged is zero or
\* negative, and a line in red that shows a height belongs to an endpoint two
\* or more blocks behind.
C19_NoEndpointAhead ==
    Joined =>
        /\ \A k \in 1 .. Len(blocks) : blocks[k] # Null => blocks[k] <= maxBlock
        /\ \A k \in 1 .. Len(console) :
              /\ console[k].delta <= 0
              /\ (console[k].text = "block" /\ console[k].blockColor = "red") =>
                    /\ Answered[k] <= maxBlock - 2
                    /\ console[k].delta = Answered[k] - maxBlock

\* C19 witness: a report with a stale line, two blocks behind.
C19_Witness ==
    /\ pc = "done"
    /\ \E k \in 1 .. Len(console) :
          /\ console[k].text = "block"
          /\ console[k].blockColor = "red"
          /\ console[k].delta = -2

\* C20: a call leaves the caller's array as it was, or with the main endpoint
\* appended when the array did not contain it; over all the calls made with
\* the same array and main endpoint the array keeps its original entries in
\* their order and grows by one element at most.
C20_ListOnlyAppendedOnce ==
    /\ pc # "idle" =>
          rpcs = IF mainRpc = NoRpc \/ Includes(arg, mainRpc) THEN arg
                 ELSE Append(arg, mainRpc)
    /\ Len(rpcs) <= Len(original) + 1
    /\ SubSeq(rpcs, 1, Len(original)) = original
    /\ Len(rpcs) = Len(original) + 1 =>
          /\ rpcs[Len(rpcs)] = mainRpc
          /\ ~Includes(original, mainRpc)
    /\ (calls >= 1 /\ (mainRpc = NoRpc \/ Includes(original, mainRpc))) => rpcs = original

\* C20 witness: a second call with the same array and main endpoint is over,
\* and the array is the original with the main endpoint appended once.
C20_Witness ==
    /\ calls = 2
    /\ pc = "done"
    /\ Len(original) = 2
    /\ rpcs = Append(original, mainRpc)
    /\ arg = rpcs

====
